---- MODULE Spec2Model ----
(***************************************************************************)
(* Model of bedrock-rs:                                                    *)
(*   - ConnectionRequest::proto_deserialize, the login handshake decoder   *)
(*     (crates/proto/src/types/connection_request.rs)                      *)
(*   - TransportLayerConn::send / recv                                     *)
(*     (proto/src/transport_layer/conn.rs)                                 *)
(***************************************************************************)
EXTENDS Integers, Sequences, FiniteSets, TLC

(***************************************************************************)
(* Bounds of the model.                                                    *)
(***************************************************************************)
\* longest "chain" array of the handshake payload
MaxChain == 3
\* number of payloads handed to send that the connection accepts
MaxSends == 2
\* number of datagrams a foreign peer puts on the channel
MaxInject == 1

(***************************************************************************)
(* Texts and base64.  A base64 text is a sequence of symbols: 0..63 are    *)
(* the sextets of the standard alphabet, B64Pad is '=', anything else is a *)
(* character outside the alphabet.                                         *)
(***************************************************************************)
B64Pad == 64

\* "QQ==", the encoding of the one-byte key <<65>>
TxtA == <<16, 16, B64Pad, B64Pad>>
\* "Qg==", the encoding of the one-byte key <<66>>
TxtB == <<16, 32, B64Pad, B64Pad>>
\* "", the encoding of zero bytes
TxtEmpty == <<>>
\* "QR==": trailing bits set in the last symbol, rejected by BASE64_STANDARD
TxtBad == <<16, 17, B64Pad, B64Pad>>

\* one group of four symbols -> [ok, bytes]; `last` says it is the final group
B64Group(g, last) ==
    IF g[1] >= B64Pad \/ g[2] >= B64Pad
    THEN [ok |-> FALSE, bytes |-> <<>>]
    ELSE IF g[3] = B64Pad
    THEN IF last /\ g[4] = B64Pad /\ g[2] % 16 = 0
         THEN [ok |-> TRUE, bytes |-> <<g[1] * 4 + g[2] \div 16>>]
         ELSE [ok |-> FALSE, bytes |-> <<>>]
    ELSE IF g[3] > B64Pad
    THEN [ok |-> FALSE, bytes |-> <<>>]
    ELSE IF g[4] = B64Pad
    THEN IF last /\ g[3] % 4 = 0
         THEN [ok |-> TRUE,
               bytes |-> <<g[1] * 4 + g[2] \div 16,
                           (g[2] % 16) * 16 + g[3] \div 4>>]
         ELSE [ok |-> FALSE, bytes |-> <<>>]
    ELSE IF g[4] > B64Pad
    THEN [ok |-> FALSE, bytes |-> <<>>]
    ELSE [ok |-> TRUE,
          bytes |-> <<g[1] * 4 + g[2] \div 16,
                      (g[2] % 16) * 16 + g[3] \div 4,
                      (g[3] % 4) * 64 + g[4]>>]

RECURSIVE B64Groups(_)
B64Groups(s) ==
    IF Len(s) = 0 THEN [ok |-> TRUE, bytes |-> <<>>]
    ELSE LET head == B64Group(SubSeq(s, 1, 4), Len(s) = 4)
             rest == B64Groups(SubSeq(s, 5, Len(s)))
         IN  IF head.ok /\ rest.ok
             THEN [ok |-> TRUE, bytes |-> head.bytes \o rest.bytes]
             ELSE [ok |-> FALSE, bytes |-> <<>>]

\* BASE64_STANDARD.decode: canonical padding is required
B64Decode(s) ==
    IF Len(s) % 4 # 0 THEN [ok |-> FALSE, bytes |-> <<>>] ELSE B64Groups(s)

(***************************************************************************)
(* JSON values and claims maps.  A claims map (BTreeMap<String, Value>) is *)
(* a set of [k, v] entries with distinct keys.                             *)
(***************************************************************************)
JStr(txt) == [t |-> "String", v |-> txt]
JNum      == [t |-> "Number", v |-> <<>>]

HasKey(claims, key) == \E e \in claims : e.k = key
Get(claims, key)    == (CHOOSE e \in claims : e.k = key).v

ClaimsNoKey    == {[k |-> "extraData", v |-> JNum]}
ClaimsKey(txt) == {[k |-> "identityPublicKey", v |-> JStr(txt)]}
ClaimsKeyNum   == {[k |-> "identityPublicKey", v |-> JNum]}

(***************************************************************************)
(* The elements of the "chain" array.                                      *)
(*   kind   "NonString"  a JSON value that is not a string                 *)
(*          "BadHeader"  a string whose JWT header does not decode         *)
(*          "BadClaims"  header decodes, the claims part does not          *)
(*          "Jwt"        a well-formed compact JWT                         *)
(*   x5u    the header's x5u: <<>> when absent, <<txt>> when present       *)
(*   sig    the key whose signature the token carries                      *)
(*   claims the claims map of its body                                     *)
(***************************************************************************)
KeyA == B64Decode(TxtA).bytes
KeyB == B64Decode(TxtB).bytes

Tok(kind, x5u, sig, claims) ==
    [kind |-> kind, x5u |-> x5u, sig |-> sig, claims |-> claims]

Tokens ==
    {Tok("NonString", <<>>, <<>>, {}), Tok("BadHeader", <<>>, <<>>, {}),
     Tok("BadClaims", <<TxtA>>, KeyA, {}),
     Tok("Jwt", <<TxtA>>, KeyA, ClaimsKey(TxtBad)),
     Tok("Jwt", <<TxtA>>, KeyA, ClaimsKeyNum)}
    \cup {Tok("Jwt", x, s, c) :
            x \in {<<>>, <<TxtA>>, <<TxtBad>>},
            s \in {KeyA, KeyB},
            c \in {ClaimsNoKey, ClaimsKey(TxtB), ClaimsKey(TxtEmpty)}}

RECURSIVE SeqsUpTo(_, _)
SeqsUpTo(S, n) ==
    IF n = 0 THEN {<<>>}
    ELSE LET shorter == SeqsUpTo(S, n - 1)
         IN  shorter \cup {Append(s, x) : s \in {t \in shorter : Len(t) = n - 1}, x \in S}

\* the chain region of the payload: its shape, and the array when it is one
RegionKinds ==
    {"LenError", "NegLen", "ShortRead", "BadUtf8", "BadJson",
     "NotObject", "NoChain", "ChainNotArray", "Array"}

Payloads ==
    {[region |-> r, chain |-> <<>>] : r \in RegionKinds \ {"Array"}}
    \cup {[region |-> "Array", chain |-> c] : c \in SeqsUpTo(Tokens, MaxChain)}

\* the raw-token region: its shape, and the token when it is a string
RawKinds == {"LenError", "NegLen", "ShortRead", "BadUtf8", "BadHeader", "BadClaims", "Jwt"}

RawClaims == {[k |-> "DeviceId", v |-> JStr(TxtA)]}

RawTokens ==
    {[kind |-> r, sig |-> <<>>, claims |-> {}] : r \in RawKinds \ {"Jwt"}}
    \cup {[kind |-> "Jwt", sig |-> s, claims |-> c] :
            s \in {KeyA, KeyB}, c \in {{}, RawClaims}}

NoRaw == [kind |-> "Unread", sig |-> <<>>, claims |-> {}]

(***************************************************************************)
(* Results of proto_deserialize.                                           *)
(***************************************************************************)
Pending == [tag |-> "Pending", err |-> "", certificate_chain |-> <<>>, raw_token |-> {}]
Err(e)  == [tag |-> "Err", err |-> e, certificate_chain |-> <<>>, raw_token |-> {}]
Ok(cc, raw) == [tag |-> "Ok", err |-> "", certificate_chain |-> cc, raw_token |-> raw]

VARIABLES
    payload,            \* the bytes under the cursor: chain region
    raw_in,             \* the raw-token region, once it has been read
    pc,                 \* position in proto_deserialize
    jwts,               \* certificate_chain_json_jwts, not yet walked
    key_data,           \* key_data
    certificate_chain,  \* certificate_chain
    keys_used,          \* the keys handed to DecodingKey::from_ec_der, per link
    raw_key,            \* the key handed to DecodingKey::from_ec_der for the raw token
    result              \* the value returned

loginVars ==
    <<payload, raw_in, pc, jwts, key_data, certificate_chain, keys_used, raw_key, result>>

VARIABLES
    variant,            \* the TransportLayerConn variant of both endpoints
    chan,               \* datagrams the underlying connection holds, in order
    closed,             \* the underlying connection is closed
    injected,           \* datagrams put on the channel by a foreign peer
    send_result,        \* what the last send call returned
    sent,               \* payloads of the send calls that returned Ok, in order
    recv_pc,            \* "idle", or "awaiting" inside conn.recv().await
    stream0,            \* the caller's stream when recv was called
    stream,             \* the caller's stream
    last_dgram,         \* what conn.recv() yielded to the last recv call
    conn_recv_calls,    \* conn.recv() calls made by the current recv call
    recv_result,        \* what the last recv call returned
    got                 \* what the recv calls that returned Ok appended, in order

connVars ==
    <<variant, chan, closed, injected, send_result, sent, recv_pc, stream0, stream,
      last_dgram, conn_recv_calls, recv_result, got>>

VARIABLES
    a_src,              \* the AnimatePacket handed to proto_serialize: <<p>>, or <<>>
    a_tag,              \* the action tag of bytes that came off the wire: <<t>>, or <<>>
    a_buf,              \* the bytes under the cursor
    a_end,              \* where the bytes proto_serialize wrote end
    a_pos,              \* the cursor's position
    a_out,              \* what proto_deserialize returned
    a_pc                \* "serialize", "written", "wire" or "done"

animVars == <<a_src, a_tag, a_buf, a_end, a_pos, a_out, a_pc>>

vars == <<loginVars, connVars, animVars>>

(***************************************************************************)
(* ConnectionRequest::proto_deserialize                                    *)
(***************************************************************************)
\* the length prefixes, the chain region and its JSON shape
EnvelopeError(region) ==
    CASE region = "LenError"      -> "LengthError"
      [] region = "NegLen"        -> "FromIntError"
      [] region = "ShortRead"     -> "IOError"
      [] region = "BadUtf8"       -> "UTF8Error"
      [] region = "BadJson"       -> "JsonError"
      [] region = "NotObject"     -> "FormatMismatch"
      [] region = "NoChain"       -> "FormatMismatch"
      [] region = "ChainNotArray" -> "FormatMismatch"
      [] OTHER                    -> ""

\* jsonwebtoken::decode_header
DecodeHeader(tok) ==
    [ok |-> tok.kind \in {"BadClaims", "Jwt"}, x5u |-> tok.x5u]

\* "Is first jwt, use self-signed header from x5u"
Anchor(kd, x5u) ==
    IF kd = <<>>
    THEN IF x5u = <<>>
         THEN [err |-> "FormatMismatch", key |-> <<>>]
         ELSE LET d == B64Decode(x5u[1])
              IN  IF d.ok THEN [err |-> "", key |-> d.bytes]
                  ELSE [err |-> "Base64DecodeError", key |-> <<>>]
    ELSE [err |-> "", key |-> kd]

\* Validation::new(alg) followed by insecure_disable_signature_validation()
ValidateSignature == FALSE

\* jsonwebtoken::decode::<BTreeMap<String, Value>>(token, key, validation)
JwtDecode(tok, key, validate) ==
    IF tok.kind # "Jwt" THEN [ok |-> FALSE, claims |-> {}]
    ELSE IF validate /\ tok.sig # key THEN [ok |-> FALSE, claims |-> {}]
    ELSE [ok |-> TRUE, claims |-> tok.claims]

\* a missing or unusable identityPublicKey defaulted to the empty key
ClaimedKeyOrEmpty(claims) ==
    IF ~HasKey(claims, "identityPublicKey") THEN [err |-> "", key |-> <<>>]
    ELSE LET v == Get(claims, "identityPublicKey")
             d == IF v.t = "String" THEN B64Decode(v.v) ELSE [ok |-> FALSE, bytes |-> <<>>]
         IN  [err |-> "", key |-> d.bytes]

\* key_data = match jwt.claims.get("identityPublicKey") { ... }
ClaimedKey(claims) ==
    IF ~HasKey(claims, "identityPublicKey")
    THEN [err |-> "FormatMismatch", key |-> <<>>]
    ELSE LET v == Get(claims, "identityPublicKey")
         IN  IF v.t # "String" THEN [err |-> "FormatMismatch", key |-> <<>>]
             ELSE LET d == B64Decode(v.v)
                  IN  IF d.ok THEN [err |-> "", key |-> d.bytes]
                      ELSE [err |-> "Base64DecodeError", key |-> <<>>]

\* a push at the wrong end of the list
PushClaimsFront(cc, claims) == <<claims>> \o cc

\* certificate_chain.push(jwt.claims)
PushClaims(cc, claims) == Append(cc, claims)

LinkFail(e, used) == [err |-> e, used |-> used, key_data |-> <<>>, claims |-> {}]

\* one iteration of `for jwt_json in certificate_chain_json_jwts`
LinkStep(tok, kd) ==
    IF tok.kind = "NonString" THEN LinkFail("FormatMismatch", <<>>)
    ELSE LET h == DecodeHeader(tok) IN
    IF ~h.ok THEN LinkFail("JwtError", <<>>)
    ELSE LET a == Anchor(kd, h.x5u) IN
    IF a.err # "" THEN LinkFail(a.err, <<>>)
    ELSE LET jwt == JwtDecode(tok, a.key, ValidateSignature) IN
    IF ~jwt.ok THEN LinkFail("JwtError", <<a.key>>)
    ELSE LET n == ClaimedKey(jwt.claims) IN
    IF n.err # "" THEN LinkFail(n.err, <<a.key>>)
    ELSE [err |-> "", used |-> <<a.key>>, key_data |-> n.key, claims |-> jwt.claims]

\* the key the raw token is decoded with: DecodingKey::from_ec_der(&vec![])
RawKey(kd) == <<>>

\* the raw-token region -> [err, used, claims]
RawStep(raw, kd) ==
    CASE raw.kind = "LenError"  -> [err |-> "IOError", used |-> <<>>, claims |-> {}]
      [] raw.kind = "NegLen"    -> [err |-> "FromIntError", used |-> <<>>, claims |-> {}]
      [] raw.kind = "ShortRead" -> [err |-> "IOError", used |-> <<>>, claims |-> {}]
      [] raw.kind = "BadUtf8"   -> [err |-> "UTF8Error", used |-> <<>>, claims |-> {}]
      [] raw.kind = "BadHeader" -> [err |-> "JwtError", used |-> <<>>, claims |-> {}]
      [] OTHER ->
            LET jwt == JwtDecode(raw, RawKey(kd), ValidateSignature)
            IN  IF jwt.ok
                THEN [err |-> "", used |-> <<RawKey(kd)>>, claims |-> jwt.claims]
                ELSE [err |-> "JwtError", used |-> <<RawKey(kd)>>, claims |-> {}]

LoginInit ==
    /\ payload \in Payloads
    /\ raw_in = NoRaw
    /\ pc = "envelope"
    /\ jwts = <<>>
    /\ key_data = <<>>
    /\ certificate_chain = <<>>
    /\ keys_used = <<>>
    /\ raw_key = <<>>
    /\ result = Pending

\* lines 97-158: lengths, UTF-8, JSON, the "chain" array
ParseEnvelope ==
    /\ pc = "envelope"
    /\ LET e == EnvelopeError(payload.region)
       IN  IF e # ""
           THEN /\ result' = Err(e)
                /\ pc' = "done"
                /\ jwts' = jwts
           ELSE /\ jwts' = payload.chain
                /\ pc' = "walk"
                /\ result' = result
    /\ UNCHANGED <<payload, raw_in, key_data, certificate_chain, keys_used, raw_key>>
    /\ UNCHANGED connVars
    /\ UNCHANGED animVars

\* lines 160-215: the next element of the chain array
WalkLink ==
    /\ pc = "walk"
    /\ jwts # <<>>
    /\ LET o == LinkStep(Head(jwts), key_data)
       IN  /\ keys_used' = keys_used \o o.used
           /\ IF o.err # ""
              THEN /\ result' = Err(o.err)
                   /\ pc' = "done"
                   /\ UNCHANGED <<jwts, key_data, certificate_chain>>
              ELSE /\ key_data' = o.key_data
                   /\ certificate_chain' = PushClaims(certificate_chain, o.claims)
                   /\ jwts' = Tail(jwts)
                   /\ UNCHANGED <<pc, result>>
    /\ UNCHANGED <<payload, raw_in, raw_key>>
    /\ UNCHANGED connVars
    /\ UNCHANGED animVars

\* lines 217-258: the raw-token region and the returned value
ReadRawToken ==
    /\ pc = "walk"
    /\ jwts = <<>>
    /\ \E raw \in RawTokens :
         LET o == RawStep(raw, key_data)
         IN  /\ raw_in' = raw
             /\ raw_key' = o.used
             /\ result' = IF o.err # "" THEN Err(o.err)
                           ELSE Ok(certificate_chain, o.claims)
    /\ pc' = "done"
    /\ UNCHANGED <<payload, jwts, key_data, certificate_chain, keys_used>>
    /\ UNCHANGED connVars
    /\ UNCHANGED animVars

LoginNext == ParseEnvelope \/ WalkLink \/ ReadRawToken

(***************************************************************************)
(* TransportLayerConn                                                      *)
(***************************************************************************)
RAKNET_GAME_PACKET_ID == 254

\* the buffers a caller hands to send: empty, one byte, one starting with the id byte
SendPayloads == {<<>>, <<1>>, <<RAKNET_GAME_PACKET_ID, 1>>}

\* the datagrams a foreign peer can put on the channel: empty, another first
\* byte, the id byte alone, the id byte and a payload
ForeignDatagrams ==
    {<<>>, <<1, RAKNET_GAME_PACKET_ID>>, <<RAKNET_GAME_PACKET_ID>>,
     <<RAKNET_GAME_PACKET_ID, 1>>}

\* the streams a caller hands to recv
CallerStreams == {<<>>, <<1>>}

\* the payload sent without the id byte
FrameBare(p) == p

\* final_stream: the id byte, then stream.get_ref()
Frame(p) == <<RAKNET_GAME_PACKET_ID>> \o p

\* ByteStreamRead::into_inner of a reader over buf that has consumed n bytes
IntoInner(buf, n) == SubSeq(buf, n + 1, Len(buf))

\* the id byte read but not compared
CheckIdAny(d) == IF Len(d) = 0 THEN "IOError" ELSE ""

\* LE::<u8>::read and the match on the id byte -> the error returned, "" if none
CheckId(d) ==
    IF Len(d) = 0 THEN "IOError"
    ELSE IF d[1] = RAKNET_GAME_PACKET_ID THEN ""
    ELSE "FormatError"

\* recv, once conn.recv() has yielded the datagram d
RecvOutcome(d, s) ==
    LET e == CheckId(d)
    IN  IF e # "" THEN [result |-> e, stream |-> s, got |-> <<>>]
        ELSE [result |-> "Ok", stream |-> s \o IntoInner(d, 1), got |-> <<IntoInner(d, 1)>>]

\* conn.recv() called again after an error
RecvRetry == [pc |-> "awaiting", result |-> "None"]

\* recv, once conn.recv() has yielded an error
RecvFailed == [pc |-> "idle", result |-> "RecvError"]

ConnInit ==
    /\ variant \in {"RaknetUDP", "NetherNet"}
    /\ chan = <<>>
    /\ closed = FALSE
    /\ injected = 0
    /\ send_result = "None"
    /\ sent = <<>>
    /\ recv_pc = "idle"
    /\ stream0 = <<>>
    /\ stream = <<>>
    /\ last_dgram = <<>>
    /\ conn_recv_calls = 0
    /\ recv_result = "None"
    /\ got = <<>>

\* send(stream): lines 21-50
Send ==
    /\ send_result # "Panic"
    /\ Len(sent) < MaxSends
    /\ \E p \in SendPayloads, accepted \in BOOLEAN :
         IF variant = "RaknetUDP"
         THEN IF accepted /\ ~closed
              THEN /\ chan' = Append(chan, Frame(p))
                   /\ sent' = Append(sent, p)
                   /\ send_result' = "Ok"
              ELSE /\ send_result' = "SendError"
                   /\ UNCHANGED <<chan, sent>>
         ELSE /\ send_result' = "Panic"
              /\ UNCHANGED <<chan, sent>>
    /\ UNCHANGED <<variant, closed, injected, recv_pc, stream0, stream, last_dgram,
                   conn_recv_calls, recv_result, got>>
    /\ UNCHANGED loginVars
    /\ UNCHANGED animVars

\* recv(stream) up to conn.recv().await: lines 52-55
RecvBegin ==
    /\ recv_pc = "idle"
    /\ recv_result # "Panic"
    /\ \E s \in CallerStreams :
         /\ stream0' = s
         /\ stream' = s
    /\ last_dgram' = <<>>
    /\ IF variant = "RaknetUDP"
       THEN /\ recv_pc' = "awaiting"
            /\ conn_recv_calls' = 1
            /\ recv_result' = "None"
       ELSE /\ recv_result' = "Panic"
            /\ UNCHANGED <<recv_pc, conn_recv_calls>>
    /\ UNCHANGED <<variant, chan, closed, injected, send_result, sent, got>>
    /\ UNCHANGED loginVars
    /\ UNCHANGED animVars

\* conn.recv() yields a datagram: lines 56, 64-87
RecvDatagram ==
    /\ recv_pc = "awaiting"
    /\ chan # <<>>
    /\ LET o == RecvOutcome(Head(chan), stream)
       IN  /\ recv_result' = o.result
           /\ stream' = o.stream
           /\ got' = got \o o.got
    /\ last_dgram' = <<Head(chan)>>
    /\ chan' = Tail(chan)
    /\ recv_pc' = "idle"
    /\ UNCHANGED <<variant, closed, injected, send_result, sent, stream0, conn_recv_calls>>
    /\ UNCHANGED loginVars
    /\ UNCHANGED animVars

\* conn.recv() yields an error: lines 57-61
RecvClosed ==
    /\ recv_pc = "awaiting"
    /\ closed
    /\ recv_pc' = RecvFailed.pc
    /\ recv_result' = RecvFailed.result
    /\ conn_recv_calls' =
          IF RecvFailed.pc = "awaiting" /\ conn_recv_calls < 2
          THEN conn_recv_calls + 1 ELSE conn_recv_calls
    /\ UNCHANGED <<variant, chan, closed, injected, send_result, sent, stream0, stream,
                   last_dgram, got>>
    /\ UNCHANGED loginVars
    /\ UNCHANGED animVars

\* a foreign peer puts a datagram on the channel
Inject ==
    /\ ~closed
    /\ injected < MaxInject
    /\ \E d \in ForeignDatagrams : chan' = Append(chan, d)
    /\ injected' = injected + 1
    /\ UNCHANGED <<variant, closed, send_result, sent, recv_pc, stream0, stream,
                   last_dgram, conn_recv_calls, recv_result, got>>
    /\ UNCHANGED loginVars
    /\ UNCHANGED animVars

\* the underlying connection closes
Close ==
    /\ ~closed
    /\ closed' = TRUE
    /\ UNCHANGED <<variant, chan, injected, send_result, sent, recv_pc, stream0, stream,
                   last_dgram, conn_recv_calls, recv_result, got>>
    /\ UNCHANGED loginVars
    /\ UNCHANGED animVars

ConnNext == Send \/ RecvBegin \/ RecvDatagram \/ RecvClosed \/ Inject \/ Close

LoopNext == Send \/ RecvBegin \/ RecvDatagram

(***************************************************************************)
(* AnimatePacket                                                           *)
(***************************************************************************)
\* AnimateAction: its variant, and rowing_time (the bits of an f32 as two
\* 16-bit halves), which only Swing carries
NoRowing == [hi |-> 0, lo |-> 0]

RowingTimes ==
    {NoRowing, [hi |-> 16256, lo |-> 0], [hi |-> 32704, lo |-> 1],
     [hi |-> 65535, lo |-> 65535]}

AnimateActions ==
    {[kind |-> k, rowing_time |-> NoRowing] :
        k \in {"NoAction", "WakeUp", "CriticalHit", "MagicCriticalHit",
               "RowRight", "RowLeft"}}
    \cup {[kind |-> "Swing", rowing_time |-> r] : r \in RowingTimes}

RuntimeIds == {0, 1, 127, 128, 300}

AnimatePackets ==
    {[action |-> a, target_runtime_id |-> id] : a \in AnimateActions, id \in RuntimeIds}

\* unsigned variable-width integer: 7 bits per byte, least significant group
\* first, continuation bit on all but the last byte
RECURSIVE VarUEncode(_)
VarUEncode(u) ==
    IF u < 128 THEN <<u>> ELSE <<(u % 128) + 128>> \o VarUEncode(u \div 128)

\* -> [err, value, pos]; at most `groups` bytes
RECURSIVE VarUDecodeFrom(_, _, _, _, _)
VarUDecodeFrom(buf, pos, groups, scale, acc) ==
    IF groups = 0 THEN [err |-> "Overflow", value |-> 0, pos |-> pos]
    ELSE IF pos >= Len(buf) THEN [err |-> "TruncatedInput", value |-> 0, pos |-> pos]
    ELSE LET b == buf[pos + 1]
             v == acc + (b % 128) * scale
         IN  IF b < 128 THEN [err |-> "", value |-> v, pos |-> pos + 1]
             ELSE VarUDecodeFrom(buf, pos + 1, groups - 1, scale * 128, v)

VarUDecode(buf, pos, groups) == VarUDecodeFrom(buf, pos, groups, 1, 0)

\* zigzag(n) = (n << 1) ^ (n >> 31), and back
ZigZag(n)   == IF n >= 0 THEN 2 * n ELSE -2 * n - 1
UnZigZag(u) == IF u % 2 = 0 THEN u \div 2 ELSE -((u + 1) \div 2)

\* VAR::<i32>
VarI32Encode(n) == VarUEncode(ZigZag(n))
VarI32Decode(buf, pos) ==
    LET d == VarUDecode(buf, pos, 5)
    IN  [err |-> d.err, value |-> UnZigZag(d.value), pos |-> d.pos]

\* ActorRuntimeID
RuntimeIdEncode(id) == VarUEncode(id)
RuntimeIdDecode(buf, pos) == VarUDecode(buf, pos, 10)

\* LE::<f32>
F32Encode(r) == <<r.lo % 256, r.lo \div 256, r.hi % 256, r.hi \div 256>>
F32Decode(buf, pos) ==
    IF pos + 4 > Len(buf) THEN [err |-> "TruncatedInput", value |-> NoRowing, pos |-> pos]
    ELSE [err |-> "",
          value |-> [hi |-> buf[pos + 3] + 256 * buf[pos + 4],
                     lo |-> buf[pos + 1] + 256 * buf[pos + 2]],
          pos |-> pos + 4]

\* WakeUp written with the unassigned tag
ActionTagShifted(a) ==
    CASE a.kind = "NoAction"         -> 0
      [] a.kind = "Swing"            -> 1
      [] a.kind = "WakeUp"           -> 2
      [] a.kind = "CriticalHit"      -> 4
      [] a.kind = "MagicCriticalHit" -> 5
      [] a.kind = "RowRight"         -> 128
      [] OTHER                       -> 129

\* let action = match self.action { ... }
ActionTag(a) ==
    CASE a.kind = "NoAction"         -> 0
      [] a.kind = "Swing"            -> 1
      [] a.kind = "WakeUp"           -> 3
      [] a.kind = "CriticalHit"      -> 4
      [] a.kind = "MagicCriticalHit" -> 5
      [] a.kind = "RowRight"         -> 128
      [] OTHER                       -> 129

\* proto_serialize: the tag, the runtime id, then rowing_time for Swing
AnimateSerialize(p) ==
    VarI32Encode(ActionTag(p.action))
    \o RuntimeIdEncode(p.target_runtime_id)
    \o (IF p.action.kind = "Swing" THEN F32Encode(p.action.rowing_time) ELSE <<>>)

\* an unknown tag read as NoAction
KindOfTagOrDefault(t) ==
    CASE t = 1   -> "Swing"
      [] t = 3   -> "WakeUp"
      [] t = 4   -> "CriticalHit"
      [] t = 5   -> "MagicCriticalHit"
      [] t = 128 -> "RowRight"
      [] t = 129 -> "RowLeft"
      [] OTHER   -> "NoAction"

\* let action = match action { ... }: the variant, "" for `other`
KindOfTag(t) ==
    CASE t = 0   -> "NoAction"
      [] t = 1   -> "Swing"
      [] t = 3   -> "WakeUp"
      [] t = 4   -> "CriticalHit"
      [] t = 5   -> "MagicCriticalHit"
      [] t = 128 -> "RowRight"
      [] t = 129 -> "RowLeft"
      [] OTHER   -> ""

NoPacket == [action |-> [kind |-> "", rowing_time |-> NoRowing], target_runtime_id |-> 0]

PacketPending == [tag |-> "Pending", err |-> "", packet |-> NoPacket]
PacketErr(e)  == [tag |-> "Err", err |-> e, packet |-> NoPacket]
PacketOk(p)   == [tag |-> "Ok", err |-> "", packet |-> p]

\* proto_deserialize -> [out, pos]
AnimateDeserialize(buf, pos) ==
    LET t == VarI32Decode(buf, pos) IN
    IF t.err # "" THEN [out |-> PacketErr(t.err), pos |-> t.pos]
    ELSE LET id == RuntimeIdDecode(buf, t.pos) IN
    IF id.err # "" THEN [out |-> PacketErr(id.err), pos |-> id.pos]
    ELSE LET k == KindOfTag(t.value) IN
    IF k = "" THEN [out |-> PacketErr("InvalidEnumID"), pos |-> id.pos]
    ELSE IF k = "Swing"
    THEN LET r == F32Decode(buf, id.pos)
         IN  IF r.err # "" THEN [out |-> PacketErr(r.err), pos |-> r.pos]
             ELSE [out |-> PacketOk([action |-> [kind |-> k, rowing_time |-> r.value],
                                     target_runtime_id |-> id.value]),
                   pos |-> r.pos]
    ELSE [out |-> PacketOk([action |-> [kind |-> k, rowing_time |-> NoRowing],
                            target_runtime_id |-> id.value]),
          pos |-> id.pos]

\* action tags that come off the wire
WireTags == {-65, -64, -1, 0, 1, 2, 3, 4, 5, 6, 64, 127, 128, 129, 130}

\* what follows the tag: nothing, a cut runtime id, a runtime id, one with an
\* f32 or more behind it, one with a cut f32, a runtime id of eleven bytes
WireRests ==
    {<<>>, <<128>>, <<1>>, <<172, 2>>, <<1, 0, 0, 128, 63>>, <<1, 0, 0>>,
     <<1, 0, 0, 128, 63, 7>>,
     <<128, 128, 128, 128, 128, 128, 128, 128, 128, 128, 1>>}

\* bytes that hold no action tag: none, a cut tag, a tag of six bytes
WireNoTag == {<<>>, <<128>>, <<128, 128, 128, 128, 128, 1>>}

\* bytes that follow the packet in the buffer
Trailing == {<<>>, <<0>>, <<1, 128>>}

AnimInit ==
    /\ a_end = 0
    /\ a_pos = 0
    /\ a_out = PacketPending
    /\ \/ /\ a_pc = "serialize"
          /\ a_src \in {<<p>> : p \in AnimatePackets}
          /\ a_tag = <<>>
          /\ a_buf = <<>>
       \/ /\ a_pc = "wire"
          /\ a_src = <<>>
          /\ \E t \in WireTags, r \in WireRests :
                /\ a_tag = <<t>>
                /\ a_buf = VarI32Encode(t) \o r
       \/ /\ a_pc = "wire"
          /\ a_src = <<>>
          /\ a_tag = <<>>
          /\ a_buf \in WireNoTag

\* proto_serialize(&self, stream), and the bytes that follow in the buffer
Serialize ==
    /\ a_pc = "serialize"
    /\ \E rest \in Trailing :
         /\ a_buf' = a_buf \o AnimateSerialize(a_src[1]) \o rest
         /\ a_end' = Len(a_buf \o AnimateSerialize(a_src[1]))
    /\ a_pc' = "written"
    /\ UNCHANGED <<a_src, a_tag, a_pos, a_out>>
    /\ UNCHANGED <<loginVars, connVars>>

\* proto_deserialize(stream)
Deserialize ==
    /\ a_pc \in {"written", "wire"}
    /\ LET o == AnimateDeserialize(a_buf, a_pos)
       IN  /\ a_out' = o.out
           /\ a_pos' = o.pos
    /\ a_pc' = "done"
    /\ UNCHANGED <<a_src, a_tag, a_buf, a_end>>
    /\ UNCHANGED <<loginVars, connVars>>

AnimNext == Serialize \/ Deserialize

(***************************************************************************)
(* Specifications                                                          *)
(***************************************************************************)
\* no AnimatePacket under way
AnimParked ==
    /\ a_src = <<>>
    /\ a_tag = <<>>
    /\ a_buf = <<>>
    /\ a_end = 0
    /\ a_pos = 0
    /\ a_out = PacketPending
    /\ a_pc = "done"

\* no handshake under way
LoginParked ==
    /\ payload = [region |-> "Array", chain |-> <<>>]
    /\ raw_in = NoRaw
    /\ pc = "done"
    /\ jwts = <<>>
    /\ key_data = <<>>
    /\ certificate_chain = <<>>
    /\ keys_used = <<>>
    /\ raw_key = <<>>
    /\ result = Pending

\* no transport traffic
ConnParked == ConnInit /\ variant = "RaknetUDP"

\* the handshake decoder on every payload
InitLogin == LoginInit /\ ConnParked /\ AnimParked
SpecLogin == InitLogin /\ [][LoginNext]_vars

\* both variants, with a foreign peer and a channel that can close
InitConn == ConnInit /\ LoginParked /\ AnimParked
SpecConn == InitConn /\ [][ConnNext]_vars

\* SpecConn where a pending conn.recv() on a closed connection resolves
FairSpecConn == SpecConn /\ WF_vars(RecvClosed)

\* two RaknetUDP endpoints over a channel that delivers intact and in order
InitLoop == ConnParked /\ LoginParked /\ AnimParked
SpecLoop == InitLoop /\ [][LoopNext]_vars

\* AnimatePacket written and read back, and read from bytes off the wire
InitAnimate == AnimInit /\ LoginParked /\ ConnParked
SpecAnimate == InitAnimate /\ [][AnimNext]_vars

(***************************************************************************)
(* Properties of the handshake decoder (SpecLogin)                         *)
(***************************************************************************)
Chain == payload.chain

\* the key a token's claims name, decoded
ClaimedBytes(tok) == B64Decode(Get(tok.claims, "identityPublicKey").v).bytes

\* a token that passes every step of the walk once its trust anchor is known
FineToken(tok) ==
    /\ tok.kind = "Jwt"
    /\ HasKey(tok.claims, "identityPublicKey")
    /\ Get(tok.claims, "identityPublicKey").t = "String"
    /\ B64Decode(Get(tok.claims, "identityPublicKey").v).ok

\* C1: the key used to decode link 0 is the base64-decoded x5u of its own
\* header, and the key used to decode link i >= 1 is the base64-decoded
\* identityPublicKey claimed by link i-1, whatever that value is.
C1_TrustAnchorIsPreviousClaim ==
    \A k \in 1..Len(keys_used) :
        keys_used[k] = IF k = 1 THEN B64Decode(Chain[1].x5u[1]).bytes
                       ELSE ClaimedBytes(Chain[k - 1])

\* C2: no chain in which some link i >= 1 is not signed by the key that link
\* i-1 claims yields a successful ConnectionRequest.
C2_BrokenChainRejected ==
    result.tag = "Ok" =>
        \A k \in 2..Len(Chain) : Chain[k].sig = ClaimedBytes(Chain[k - 1])

\* C3: the raw metadata token is decoded with the chain's terminal public key,
\* the identityPublicKey claimed by the last chain link of the walk.
C3_RawTokenUsesTerminalKey ==
    (Len(raw_key) = 1 /\ Len(Chain) >= 1) =>
        raw_key[1] = ClaimedBytes(Chain[Len(Chain)])

\* C4: on success certificate_chain has one entry per token of the "chain"
\* array, entry k is the claims map of the k-th token, and raw_token is the
\* claims map of the raw metadata token.
C4_ClaimsInArrayOrder ==
    result.tag = "Ok" =>
        /\ Len(result.certificate_chain) = Len(Chain)
        /\ \A k \in 1..Len(Chain) : result.certificate_chain[k] = Chain[k].claims
        /\ result.raw_token = raw_in.claims

\* C4 witness: three links and a raw token with claims decoded successfully
C4_Witness ==
    /\ result.tag = "Ok"
    /\ Len(result.certificate_chain) = 3
    /\ result.certificate_chain[1] # result.certificate_chain[2]
    /\ result.raw_token # {}

\* the element d of the chain is a structural violation, and nothing before it is
StructuralAt(d) ==
    /\ \A j \in 1..(d - 1) : FineToken(Chain[j])
    /\ d > 1 => (Chain[1].x5u # <<>> /\ B64Decode(Chain[1].x5u[1]).ok)
    /\ \/ Chain[d].kind = "NonString"
       \/ d = 1 /\ Chain[d].kind \in {"BadClaims", "Jwt"} /\ Chain[d].x5u = <<>>
       \/ /\ Chain[d].kind = "Jwt"
          /\ ~HasKey(Chain[d].claims, "identityPublicKey")
          /\ d = 1 => (Chain[1].x5u # <<>> /\ B64Decode(Chain[1].x5u[1]).ok)

\* C5: every structural violation of the payload is reported as
\* FormatMismatch: a chain region that is not an object with a "chain" array
\* of strings, a first token without x5u, a token at any step of the walk
\* whose claims lack identityPublicKey.
C5_StructuralIsFormatMismatch ==
    (/\ pc = "done"
     /\ \/ payload.region \in {"NotObject", "NoChain", "ChainNotArray"}
        \/ \E d \in 1..Len(Chain) : StructuralAt(d))
    => (result.tag = "Err" /\ result.err = "FormatMismatch")

\* C6: the handshake is terminal on its first failure: once a step fails the
\* call returns an error, no later chain token is decoded, the raw-token
\* region is not read and no ConnectionRequest is returned.
C6_TerminalOnFirstFailure ==
    /\ payload.region # "Array" =>
          (keys_used = <<>> /\ raw_in = NoRaw /\ result.tag # "Ok")
    /\ \A d \in 1..Len(Chain) :
          ~FineToken(Chain[d]) =>
              /\ Len(keys_used) <= d
              /\ Len(certificate_chain) < d
              /\ raw_in = NoRaw
              /\ result.tag # "Ok"
    /\ result.tag = "Err" =>
          /\ pc = "done"
          /\ result.certificate_chain = <<>> /\ result.raw_token = {}
          /\ raw_in = NoRaw => Len(keys_used) <= Len(certificate_chain) + 1
          /\ raw_in # NoRaw => jwts = <<>>

\* C6 witness: the second of three links failed; the third was never decoded
C6_Witness ==
    /\ result.tag = "Err"
    /\ Len(Chain) = 3
    /\ Len(keys_used) = 2
    /\ Len(certificate_chain) = 1
    /\ raw_in = NoRaw

(***************************************************************************)
(* Properties of TransportLayerConn (SpecConn, FairSpecConn, SpecLoop)     *)
(***************************************************************************)
RecvReturned == recv_pc = "idle" /\ recv_result \notin {"None", "Panic"}

\* C7: recv on RaknetUDP returns Ok only when the first byte of the datagram
\* is RAKNET_GAME_PACKET_ID, and then appends exactly the bytes after it to
\* the caller's stream; for any other first byte, or an empty datagram, it
\* returns an error and leaves the stream unchanged.
C7_RecvValidatesIdByte ==
    (variant = "RaknetUDP" /\ RecvReturned /\ last_dgram # <<>>) =>
        LET d == last_dgram[1]
        IN  IF Len(d) >= 1 /\ d[1] = RAKNET_GAME_PACKET_ID
            THEN recv_result = "Ok" /\ stream = stream0 \o Tail(d)
            ELSE recv_result # "Ok" /\ stream = stream0

\* C7 witness: a datagram with another first byte was refused with a
\* non-empty caller stream left as it was
C7_Witness ==
    /\ variant = "RaknetUDP" /\ RecvReturned
    /\ last_dgram # <<>> /\ Len(last_dgram[1]) = 2
    /\ last_dgram[1][1] # RAKNET_GAME_PACKET_ID
    /\ recv_result = "FormatError"
    /\ stream = <<1>>

\* C8: send on RaknetUDP hands the connection one datagram per call, the id
\* byte followed by the payload unchanged, so that over a channel delivering
\* intact and in order the payloads recv obtains are the payloads sent, in
\* order.
C8_SendRecvRoundTrip ==
    /\ Len(got) + Len(chan) = Len(sent)
    /\ \A k \in 1..Len(got) : got[k] = sent[k]
    /\ \A k \in 1..Len(chan) :
          chan[k] = <<RAKNET_GAME_PACKET_ID>> \o sent[Len(got) + k]

\* C8 witness: two different payloads sent and received in that order
C8_Witness ==
    /\ Len(got) = 2
    /\ got[1] # got[2]
    /\ got = sent

\* C9: send and recv on a variant other than RaknetUDP return a
\* NotImplemented error; they never panic and never succeed.
C9_UnimplementedIsAnError ==
    variant # "RaknetUDP" =>
        /\ send_result \in {"None", "NotImplemented"}
        /\ recv_result \in {"None", "NotImplemented"}

\* C10: a recv pending on a closed connection with nothing left to deliver
\* returns a transport error, having written nothing to the caller's stream
\* and called conn.recv() once.
C10_RecvOnClosedReturnsError ==
    (recv_pc = "awaiting" /\ closed /\ chan = <<>>)
        ~> (/\ recv_pc = "idle"
            /\ recv_result = "RecvError"
            /\ stream = stream0
            /\ conn_recv_calls = 1)

\* C10 witness: recv returned RecvError on a closed connection
C10_Witness ==
    /\ closed /\ recv_pc = "idle" /\ recv_result = "RecvError"
    /\ stream = stream0 /\ stream # <<>>
    /\ last_dgram = <<>>

(***************************************************************************)
(* Properties of AnimatePacket (SpecAnimate)                               *)
(***************************************************************************)
\* C11: for every AnimatePacket p, proto_deserialize applied to the bytes
\* proto_serialize(p) wrote returns a packet equal to p and leaves the cursor
\* exactly at the end of those bytes, whatever follows them in the buffer.
C11_AnimateRoundTrip ==
    (a_pc = "done" /\ a_src # <<>>) =>
        /\ a_out = PacketOk(a_src[1])
        /\ a_pos = a_end

\* C11 witness: a Swing with a rowing_time read back with bytes left behind it
C11_Witness ==
    /\ a_pc = "done" /\ a_src # <<>>
    /\ a_src[1].action.kind = "Swing"
    /\ a_src[1].action.rowing_time = [hi |-> 16256, lo |-> 0]
    /\ a_src[1].target_runtime_id = 300
    /\ a_out.tag = "Ok"
    /\ a_end < Len(a_buf)

ValidTags == {0, 1, 3, 4, 5, 128, 129}

C12_NegativeRefused ==
    /\ a_pc = "done" /\ a_tag = <<-1>>
    /\ a_out = PacketErr("InvalidEnumID")

====
